---- MODULE Spec2Model ----
(***************************************************************************)
(* A model of CudaFFT3D (platforms/cuda/src/CudaFFT3D.cpp): the dimension  *)
(* legalizer findLegalDimension, the radix planner getSmallestRadix, the   *)
(* kernel source synthesizer createKernel, the constructor's packing       *)
(* selection and the launch sequence of execFFT.                           *)
(*                                                                         *)
(* Three specifications share the variables:                               *)
(*   SpecLegal   a caller legalizing a requested size, then legalizing the *)
(*               result again;                                             *)
(*   SpecKernel  one call of createKernel, one loop iteration per step;    *)
(*   Spec        the constructor (packing selection, then the six          *)
(*               createKernel calls) followed by execFFT calls.            *)
(***************************************************************************)
EXTENDS Integers, Sequences, FiniteSets, TLC

VARIABLES
    legal,      \* SpecLegal: the caller of findLegalDimension
    ck,         \* SpecKernel: the locals of one createKernel call
    args,       \* Spec: the constructor's arguments and the context's precision
    fft,        \* Spec: the fields of the CudaFFT3D object
    pc,         \* Spec: where the constructor is, then "ready" or "thrown"
    call,       \* Spec: the arguments of the latest execFFT
    launches    \* Spec: context.executeKernel calls of the latest execFFT

vars == <<legal, ck, args, fft, pc, call, launches>>

-----------------------------------------------------------------------------
(* Bounds of the model. *)

\* Largest argument handed to findLegalDimension.
MaxMinimum == 130
\* The arguments start at -MinimumBelow, so that minimum < 1 happens.
MinimumBelow == 3
\* Largest axis length handed to createKernel in SpecKernel.
MaxZ == 128
\* Largest grid size along one axis in Spec.
MaxSize == 11

Max(a, b) == IF a > b THEN a ELSE b

-----------------------------------------------------------------------------
(* findLegalDimension, CudaFFT3D.cpp:127-142 *)

\* Mutant of Reduce: the loop stops after one division.
Reduce_once(unfactored, factor) ==
    IF unfactored > 1 /\ unfactored % factor = 0
    THEN unfactored \div factor
    ELSE unfactored

RECURSIVE Reduce(_, _)
\* while (unfactored > 1 && unfactored%factor == 0) unfactored /= factor;
Reduce(unfactored, factor) ==
    IF unfactored > 1 /\ unfactored % factor = 0
    THEN Reduce(unfactored \div factor, factor)
    ELSE unfactored

RECURSIVE FactorFrom(_, _)
\* for (int factor = 2; factor < 8; factor++) <the while loop>
FactorFrom(unfactored, factor) ==
    IF factor < 8
    THEN FactorFrom(Reduce(unfactored, factor), factor + 1)
    ELSE unfactored

RECURSIVE LegalSearch(_)
\* while (true) { ...; if (unfactored == 1) return minimum; minimum++; }
LegalSearch(minimum) ==
    IF FactorFrom(minimum, 2) = 1
    THEN minimum
    ELSE LegalSearch(minimum + 1)

findLegalDimension(minimum) ==
    IF minimum < 1 THEN 1 ELSE LegalSearch(minimum)

-----------------------------------------------------------------------------
(* getSmallestRadix, CudaFFT3D.cpp:145-169 *)

RECURSIVE DivideOut(_, _)
\* The division of one while loop, repeated while the radix divides.
DivideOut(unfactored, radix) ==
    IF unfactored % radix = 0
    THEN DivideOut(unfactored \div radix, radix)
    ELSE unfactored

\* while (unfactored%radix == 0) { minRadix = radix; unfactored /= radix; }
RadixLoop(st, radix) ==
    IF st.unfactored % radix = 0
    THEN [minRadix |-> radix, unfactored |-> DivideOut(st.unfactored, radix)]
    ELSE st

\* Mutant of getSmallestRadix: the first radix that divides, in priority order.
getSmallestRadix_first(size) ==
    IF size % 7 = 0 THEN 7
    ELSE IF size % 5 = 0 THEN 5
    ELSE IF size % 4 = 0 THEN 4
    ELSE IF size % 3 = 0 THEN 3
    ELSE IF size % 2 = 0 THEN 2
    ELSE 1

getSmallestRadix(size) ==
    RadixLoop(RadixLoop(RadixLoop(RadixLoop(RadixLoop(
        [minRadix |-> 1, unfactored |-> size], 7), 5), 4), 3), 2).minRadix

-----------------------------------------------------------------------------
(* createKernel, CudaFFT3D.cpp:171-351 *)

\* The generated source is a sequence of tokens, one per emitted statement that
\* touches data0/data1, a guard, a barrier or a brace.  The arithmetic of the
\* butterflies (lines 219-248, 263-274, 286-289, 299-301) reads and writes
\* registers only and is left out.

\* int maxThreads = (context.getUseDoublePrecision() ? 128 : 256);
maxThreadsOf(useDouble) == IF useDouble THEN 128 ELSE 256

\* Mutant of StageRadix: the test for 7 is missing.
StageRadix_no7(L) ==
    IF L % 5 = 0 THEN 5
    ELSE IF L % 4 = 0 THEN 4
    ELSE IF L % 3 = 0 THEN 3
    ELSE IF L % 2 = 0 THEN 2
    ELSE 0

\* Mutant of StageRadix: the radices are tested in ascending order.
StageRadix_ascending(L) ==
    IF L % 2 = 0 THEN 2
    ELSE IF L % 3 = 0 THEN 3
    ELSE IF L % 4 = 0 THEN 4
    ELSE IF L % 5 = 0 THEN 5
    ELSE IF L % 7 = 0 THEN 7
    ELSE 0

\* Mutant of StageRadix: the last else takes radix 2 instead of throwing.
StageRadix_nothrow(L) ==
    IF L % 7 = 0 THEN 7
    ELSE IF L % 5 = 0 THEN 5
    ELSE IF L % 4 = 0 THEN 4
    ELSE IF L % 3 = 0 THEN 3
    ELSE 2

\* The radix of a stage (lines 188-199); 0 stands for the throw of line 199.
StageRadix(L) ==
    IF L % 7 = 0 THEN 7
    ELSE IF L % 5 = 0 THEN 5
    ELSE IF L % 4 = 0 THEN 4
    ELSE IF L % 3 = 0 THEN 3
    ELSE IF L % 2 = 0 THEN 2
    ELSE 0

\* Mutant of inputBuffer: every stage reads data0.
inputBuffer_zero(stage) == 0

\* int input = stage%2;
inputBuffer(stage) == stage % 2

\* int output = 1-input;
outputBuffer(input) == 1 - input

\* The loads "real2 c<k> = data<input>[base+k*L*m]" of a radix block.
StageReads(radix, input, L, m) ==
    [k \in 1..radix |-> [op |-> "read", buf |-> input, offset |-> (k - 1) * L * m]]

\* The stores "data<output>[base+((radix-1)*j+k)*m] = ..." of a radix block;
\* every store but the first multiplies by w[j*(k*zsize)/(radix*L)].
StageWrites(radix, output, L, m, zsize) ==
    [k \in 1..radix |->
        [op |-> "write", buf |-> output, jmult |-> radix - 1, k |-> k - 1,
         m |-> m, wnum |-> (k - 1) * zsize, wden |-> radix * L]]

\* A call of createKernel: its arguments, the context's precision, and the
\* locals, not yet set.
KernelCall(xsize, ysize, zsize, axis, forward, inputIsReal, useDouble) ==
    [xsize |-> xsize, ysize |-> ysize, zsize |-> zsize, axis |-> axis,
     forward |-> forward, inputIsReal |-> inputIsReal, useDouble |-> useDouble,
     minRadix |-> 0, threadsPerBlock |-> 0, blocksPerGroup |-> 0,
     stage |-> 0, L |-> 0, m |-> 0, source |-> <<>>,
     at |-> "call", error |-> <<>>, replacements |-> <<>>, threads |-> 0]

\* The locals on reaching the loop (lines 172-180); minRadix keeps what
\* getSmallestRadix(zsize) returned at line 175.
KernelEntry(st) ==
    LET minRadix == getSmallestRadix(st.zsize)
        threadsPerBlock == st.zsize \div minRadix
        blocksPerGroup == Max(1, maxThreadsOf(st.useDouble) \div threadsPerBlock)
    IN  [st EXCEPT
            !.minRadix = minRadix,
            !.threadsPerBlock = threadsPerBlock,
            !.blocksPerGroup = blocksPerGroup,
            !.stage = 0, !.L = st.zsize, !.m = 1,
            !.at = "loop"]

\* One iteration of "while (L > 1)" with a radix found (lines 185-316).
StageBody(st) ==
    LET input == inputBuffer(st.stage)
        output == outputBuffer(input)
        radix == StageRadix(st.L)
        L == st.L \div radix
        m == st.m
        guard == IF L * m < st.threadsPerBlock
                 THEN [op |-> "if", limit |-> st.blocksPerGroup * L * m]
                 ELSE [op |-> "block"]
    IN  [st EXCEPT
            !.L = L,
            !.m = m * radix,
            !.stage = st.stage + 1,
            !.source = st.source
                \o << [op |-> "open"],
                      [op |-> "pass", pass |-> st.stage + 1, radix |-> radix],
                      guard,
                      [op |-> "index", lanes |-> L * m, row |-> st.zsize, m |-> m] >>
                \o StageReads(radix, input, L, m)
                \o StageWrites(radix, output, L, m, st.zsize)
                \o << [op |-> "close"], [op |-> "sync"], [op |-> "close"] >>]

\* throw OpenMMException("Illegal size for FFT: "+context.intToString(zsize));
StageThrow(st) ==
    [st EXCEPT !.at = "thrown", !.error = <<"Illegal size for FFT: ", st.zsize>>]

\* bool outputIsReal = (inputIsReal && axis == 2 && !forward);
outputIsReal(inputIsReal, axis, forward) == inputIsReal /\ axis = 2 /\ ~forward

\* Mutant of outputIsPacked: the flag goes to the kernel of axis 0.
outputIsPacked_axis0(inputIsReal, axis, forward) == inputIsReal /\ axis = 0 /\ forward

\* bool outputIsPacked = (inputIsReal && axis == 2 && forward);
outputIsPacked(inputIsReal, axis, forward) == inputIsReal /\ axis = 2 /\ forward

Flag(b) == IF b THEN "1" ELSE "0"

\* The end of createKernel, after the loop (lines 321-350).
KernelFinish(st) ==
    LET isReal == outputIsReal(st.inputIsReal, st.axis, st.forward)
        isPacked == outputIsPacked(st.inputIsReal, st.axis, st.forward)
        source == st.source \o
            << [op |-> "rows", packed |-> isPacked],
               [op |-> "copy", buf |-> st.stage % 2, packed |-> isPacked,
                suffix |-> IF isReal THEN ".x" ELSE ""] >>
        firstReal == st.inputIsReal /\ st.axis = 0 /\ st.forward
    IN  [st EXCEPT
            !.at = "done",
            !.source = source,
            !.replacements =
                [XSIZE |-> st.xsize, YSIZE |-> st.ysize, ZSIZE |-> st.zsize,
                 BLOCKS_PER_GROUP |-> st.blocksPerGroup,
                 THREADS_PER_BLOCK |-> st.threadsPerBlock,
                 COMPUTE_FFT |-> source,
                 SIGN |-> IF st.forward THEN "1" ELSE "-1",
                 INPUT_TYPE |-> IF firstReal THEN "real" ELSE "real2",
                 OUTPUT_TYPE |-> IF isReal THEN "real" ELSE "real2",
                 INPUT_IS_REAL |-> Flag(firstReal),
                 INPUT_IS_PACKED |->
                    Flag(st.inputIsReal /\ st.axis = 0 /\ ~st.forward),
                 OUTPUT_IS_PACKED |-> Flag(isPacked)],
            !.threads = st.blocksPerGroup * st.threadsPerBlock]

RECURSIVE RunStages(_)
\* The loop of lines 184-317 followed by the rest of the function.
RunStages(st) ==
    IF st.L > 1
    THEN IF StageRadix(st.L) = 0 THEN StageThrow(st) ELSE RunStages(StageBody(st))
    ELSE KernelFinish(st)

\* The whole call: the final locals, with at = "done" (replacements and threads
\* set) or at = "thrown" (error set).
createKernel(xsize, ysize, zsize, axis, forward, inputIsReal, useDouble) ==
    RunStages(KernelEntry(
        KernelCall(xsize, ysize, zsize, axis, forward, inputIsReal, useDouble)))

-----------------------------------------------------------------------------
(* Values the variables of a specification hold while it is not the one run. *)

IdleLegal == [at |-> "idle"]
IdleKernel == [at |-> "idle"]
IdleArgs == [at |-> "idle"]
IdleFFT == [at |-> "idle"]
IdleCall == [at |-> "idle"]

-----------------------------------------------------------------------------
(* SpecLegal: a caller legalizes a size, then legalizes the result. *)

InitLegal ==
    /\ legal \in [at : {"start"}, minimum : (0 - MinimumBelow)..MaxMinimum,
                  result : {0}, again : {0}]
    /\ ck = IdleKernel /\ args = IdleArgs /\ fft = IdleFFT
    /\ pc = "idle" /\ call = IdleCall /\ launches = <<>>

\* result = findLegalDimension(minimum)
Legalize ==
    /\ legal.at = "start"
    /\ legal' = [legal EXCEPT !.at = "once",
                              !.result = findLegalDimension(legal.minimum)]
    /\ UNCHANGED <<ck, args, fft, pc, call, launches>>

\* again = findLegalDimension(result)
Relegalize ==
    /\ legal.at = "once"
    /\ legal' = [legal EXCEPT !.at = "twice",
                              !.again = findLegalDimension(legal.result)]
    /\ UNCHANGED <<ck, args, fft, pc, call, launches>>

NextLegal == Legalize \/ Relegalize

SpecLegal == InitLegal /\ [][NextLegal]_vars

-----------------------------------------------------------------------------
(* SpecKernel: one call of createKernel, a loop iteration per step. *)

\* The sizes of the other two axes do not enter the loop; two values each.
OtherSizes == {1, 2}

InitKernel ==
    /\ \E zsize \in 1..MaxZ, xsize \in OtherSizes, ysize \in OtherSizes,
          axis \in 0..2, forward \in BOOLEAN, inputIsReal \in BOOLEAN,
          useDouble \in BOOLEAN :
            ck = KernelCall(xsize, ysize, zsize, axis, forward, inputIsReal, useDouble)
    /\ legal = IdleLegal /\ args = IdleArgs /\ fft = IdleFFT
    /\ pc = "idle" /\ call = IdleCall /\ launches = <<>>

Enter ==
    /\ ck.at = "call"
    /\ ck' = KernelEntry(ck)
    /\ UNCHANGED <<legal, args, fft, pc, call, launches>>

Stage ==
    /\ ck.at = "loop" /\ ck.L > 1 /\ StageRadix(ck.L) # 0
    /\ ck' = StageBody(ck)
    /\ UNCHANGED <<legal, args, fft, pc, call, launches>>

Throw ==
    /\ ck.at = "loop" /\ ck.L > 1 /\ StageRadix(ck.L) = 0
    /\ ck' = StageThrow(ck)
    /\ UNCHANGED <<legal, args, fft, pc, call, launches>>

Finish ==
    /\ ck.at = "loop" /\ ~(ck.L > 1)
    /\ ck' = KernelFinish(ck)
    /\ UNCHANGED <<legal, args, fft, pc, call, launches>>

NextKernel == Enter \/ Stage \/ Throw \/ Finish

SpecKernel == InitKernel /\ [][NextKernel]_vars

-----------------------------------------------------------------------------
(* Spec: the constructor CudaFFT3D::CudaFFT3D (lines 38-93), then execFFT     *)
(* (lines 95-125).                                                           *)

\* A default-constructed CUfunctionFake (func_ptr = nullptr).
Null == [module |-> 0, name |-> "", defines |-> <<>>]

\* context.getKernel(context.createModule(source, defines), name); every
\* createModule call of one constructor yields a module of its own, numbered
\* in the order of the calls.
Kernel(module, name, defines) == [module |-> module, name |-> name, defines |-> defines]

\* Mutant of packedAxisOf: the axes are searched in the order Z, Y, X.
packedAxisOf_zyx(xsize, ysize, zsize) ==
    IF zsize % 2 = 0 THEN 2
    ELSE IF ysize % 2 = 0 THEN 1
    ELSE IF xsize % 2 = 0 THEN 0
    ELSE -1

\* The branch the chain of lines 50-66 takes: the axis it packs, -1 for the
\* final else (packRealAsComplex = false).
packedAxisOf(xsize, ysize, zsize) ==
    IF xsize % 2 = 0 THEN 0
    ELSE IF ysize % 2 = 0 THEN 1
    ELSE IF zsize % 2 = 0 THEN 2
    ELSE -1

\* Lines 40-66: packRealAsComplex, packedAxis and the three packed sizes.
\* packedAxis is assigned only when an axis is packed; -1 stands for unassigned
\* (it is read only under packRealAsComplex).
PackingDecision(xsize, ysize, zsize, realToComplex) ==
    LET axis == IF realToComplex THEN packedAxisOf(xsize, ysize, zsize) ELSE -1
    IN  [packRealAsComplex |-> realToComplex /\ axis # -1,
         packedAxis |-> axis,
         packedXSize |-> IF axis = 0 THEN xsize \div 2 ELSE xsize,
         packedYSize |-> IF axis = 1 THEN ysize \div 2 ELSE ysize,
         packedZSize |-> IF axis = 2 THEN zsize \div 2 ELSE zsize]

\* The defines of the packing module (lines 70-78).
PackDefines(xsize, ysize, zsize, d) ==
    [XSIZE |-> xsize, YSIZE |-> ysize, ZSIZE |-> zsize,
     PACKED_AXIS |-> d.packedAxis,
     PACKED_XSIZE |-> d.packedXSize, PACKED_YSIZE |-> d.packedYSize,
     PACKED_ZSIZE |-> d.packedZSize]

\* The six createKernel calls of lines 87-92, in order.
KernelOrder ==
    <<"zkernel", "xkernel", "ykernel", "invzkernel", "invxkernel", "invykernel">>

\* The arguments of the createKernel call that sets the member `name`
\* (lines 87-92): the sizes rotate so that the transformed axis comes last.
KernelArgs(f, name) ==
    LET X == f.packedXSize
        Y == f.packedYSize
        Z == f.packedZSize
    IN  CASE name = "zkernel" ->
                [xsize |-> X, ysize |-> Y, zsize |-> Z, threads |-> "zthreads", axis |-> 0, forward |-> TRUE]
          [] name = "xkernel" ->
                [xsize |-> Y, ysize |-> Z, zsize |-> X, threads |-> "xthreads", axis |-> 1, forward |-> TRUE]
          [] name = "ykernel" ->
                [xsize |-> Z, ysize |-> X, zsize |-> Y, threads |-> "ythreads", axis |-> 2, forward |-> TRUE]
          [] name = "invzkernel" ->
                [xsize |-> X, ysize |-> Y, zsize |-> Z, threads |-> "zthreads", axis |-> 0, forward |-> FALSE]
          [] name = "invxkernel" ->
                [xsize |-> Y, ysize |-> Z, zsize |-> X, threads |-> "xthreads", axis |-> 1, forward |-> FALSE]
          [] name = "invykernel" ->
                [xsize |-> Z, ysize |-> X, zsize |-> Y, threads |-> "ythreads", axis |-> 2, forward |-> FALSE]

\* What follows the createKernel call that sets `name`.
AfterKernel(name) ==
    CASE name = "zkernel" -> "xkernel"
      [] name = "xkernel" -> "ykernel"
      [] name = "ykernel" -> "invzkernel"
      [] name = "invzkernel" -> "invxkernel"
      [] name = "invxkernel" -> "invykernel"
      [] name = "invykernel" -> "ready"

\* The sizes of a grid: every size up to MaxSize, and 22, whose factor 11 shows
\* only after a radix-2 stage has been emitted.
ExtraSizes == {22}
Sizes == (1..MaxSize) \cup ExtraSizes

\* The caller's buffers.
Buffers == {"A", "B"}

Init ==
    /\ args \in [xsize : Sizes, ysize : Sizes, zsize : Sizes,
                 realToComplex : BOOLEAN, useDouble : BOOLEAN]
    /\ fft = IdleFFT
    /\ pc = "new"
    /\ call = IdleCall
    /\ launches = <<>>
    /\ legal = IdleLegal /\ ck = IdleKernel

\* The constructor up to line 86: the member initializers, the packing
\* selection, the four packing kernels and inputIsReal.  The packed sizes and
\* inputIsReal are locals of the constructor, kept here for the calls of
\* lines 87-92.
Construct ==
    /\ pc = "new"
    /\ LET d == PackingDecision(args.xsize, args.ysize, args.zsize, args.realToComplex)
           defines == PackDefines(args.xsize, args.ysize, args.zsize, d)
           P(name) == IF d.packRealAsComplex THEN Kernel(1, name, defines) ELSE Null
       IN  fft' = [xsize |-> args.xsize, ysize |-> args.ysize, zsize |-> args.zsize,
                   packRealAsComplex |-> d.packRealAsComplex,
                   packedAxis |-> d.packedAxis,
                   packedXSize |-> d.packedXSize,
                   packedYSize |-> d.packedYSize,
                   packedZSize |-> d.packedZSize,
                   inputIsReal |-> args.realToComplex /\ ~d.packRealAsComplex,
                   packForwardKernel |-> P("packForwardData"),
                   unpackForwardKernel |-> P("unpackForwardData"),
                   packBackwardKernel |-> P("packBackwardData"),
                   unpackBackwardKernel |-> P("unpackBackwardData"),
                   zkernel |-> Null, xkernel |-> Null, ykernel |-> Null,
                   invzkernel |-> Null, invxkernel |-> Null, invykernel |-> Null,
                   zthreads |-> 0, xthreads |-> 0, ythreads |-> 0,
                   modules |-> IF d.packRealAsComplex THEN 1 ELSE 0,
                   error |-> <<>>]
    /\ pc' = "zkernel"
    /\ UNCHANGED <<legal, ck, args, call, launches>>

\* One of the assignments of lines 87-92: the call returns a kernel and sets
\* the thread count of its axis, or throws out of the constructor.
BuildKernel ==
    /\ pc \in {KernelOrder[i] : i \in 1..6}
    /\ LET a == KernelArgs(fft, pc)
           r == createKernel(a.xsize, a.ysize, a.zsize, a.axis, a.forward,
                             fft.inputIsReal, args.useDouble)
       IN  IF r.at = "thrown"
           THEN /\ fft' = [fft EXCEPT !.error = r.error]
                /\ pc' = "thrown"
           ELSE /\ fft' = [fft EXCEPT
                            ![pc] = Kernel(fft.modules + 1, "execFFT", r.replacements),
                            ![a.threads] = r.threads,
                            !.modules = fft.modules + 1]
                /\ pc' = AfterKernel(pc)
    /\ UNCHANGED <<legal, ck, args, call, launches>>

\* CUfunctionFake kernel1 = (forward ? zkernel : invzkernel);
kernel1(f, forward) == IF forward THEN f.zkernel ELSE f.invzkernel

\* Mutant of kernel2: the Y-axis kernel is taken second.
kernel2_y(f, forward) == IF forward THEN f.ykernel ELSE f.invykernel

\* CUfunctionFake kernel2 = (forward ? xkernel : invxkernel);
kernel2(f, forward) == IF forward THEN f.xkernel ELSE f.invxkernel

\* CUfunctionFake kernel3 = (forward ? ykernel : invykernel);
kernel3(f, forward) == IF forward THEN f.ykernel ELSE f.invykernel

\* void* args1[] = {&in.getDevicePointer(), &out.getDevicePointer()};
args1(in, out) == <<in, out>>

\* Mutant of args2: the same order as args1.
args2_same(in, out) == <<in, out>>

\* void* args2[] = {&out.getDevicePointer(), &in.getDevicePointer()};
args2(in, out) == <<out, in>>

\* Mutant of packedGridSize: the full element count.
packedGridSize_full(xsize, ysize, zsize) == xsize * ysize * zsize

\* int gridSize = xsize*ysize*zsize/2;
packedGridSize(xsize, ysize, zsize) == (xsize * ysize * zsize) \div 2

\* context.executeKernel(kernel, args, threads, blockSize): the first argument
\* of every kernel is the buffer it reads, the second the buffer it writes.
Launch(kernel, kargs, threads, blockSize) ==
    [kernel |-> kernel, args |-> kargs, threads |-> threads, blockSize |-> blockSize]

\* The executeKernel calls of one execFFT(in, out, forward), in order.
ExecLaunches(f, in, out, forward) ==
    IF f.packRealAsComplex
    THEN LET packKernel == IF forward THEN f.packForwardKernel ELSE f.packBackwardKernel
             unpackKernel == IF forward THEN f.unpackForwardKernel ELSE f.unpackBackwardKernel
             gridSize == packedGridSize(f.xsize, f.ysize, f.zsize)
         IN  << Launch(packKernel, args1(in, out), gridSize, 128),
                Launch(kernel1(f, forward), args2(in, out), gridSize, f.zthreads),
                Launch(kernel2(f, forward), args1(in, out), gridSize, f.xthreads),
                Launch(kernel3(f, forward), args2(in, out), gridSize, f.ythreads),
                Launch(unpackKernel, args1(in, out), gridSize, 128) >>
    ELSE LET n == f.xsize * f.ysize * f.zsize
         IN  << Launch(kernel1(f, forward), args1(in, out), n, f.zthreads),
                Launch(kernel2(f, forward), args2(in, out), n, f.xthreads),
                Launch(kernel3(f, forward), args1(in, out), n, f.ythreads) >>

\* execFFT on a constructed object, with any two buffers of the caller; the
\* function does not test whether in and out are the same buffer.
execFFT ==
    /\ pc = "ready"
    /\ \E in \in Buffers, out \in Buffers, forward \in BOOLEAN :
        /\ call' = [at |-> "returned", in |-> in, out |-> out, forward |-> forward]
        /\ launches' = ExecLaunches(fft, in, out, forward)
    /\ UNCHANGED <<legal, ck, args, fft, pc>>

Next == Construct \/ BuildKernel \/ execFFT

Spec == Init /\ [][Next]_vars

-----------------------------------------------------------------------------
(* What the claims speak of, stated without the code's loops. *)

IsPrime(p) == p > 1 /\ \A d \in 2..(p - 1) : p % d # 0

\* n >= 1 has no prime factor other than 2, 3, 5 and 7.
Smooth(n) == n >= 1 /\ \A p \in 2..n : (IsPrime(p) /\ n % p = 0) => p \in {2, 3, 5, 7}

RECURSIVE Product(_)
Product(seq) == IF seq = <<>> THEN 1 ELSE Head(seq) * Product(Tail(seq))

\* The radices of the passes emitted so far, in order.
Radices(source) ==
    LET passes == SelectSeq(source, LAMBDA t : t.op = "pass")
    IN  [i \in 1..Len(passes) |-> passes[i].radix]

\* The stage (0, 1, ...) the token at position i belongs to: the passes opened
\* up to i, less one.
StageOf(source, i) == Cardinality({j \in 1..i : source[j].op = "pass"}) - 1

\* The positions of the tokens of kind op in stage k.
TokensOf(source, k, op) ==
    {i \in 1..Len(source) : source[i].op = op /\ StageOf(source, i) = k}

-----------------------------------------------------------------------------
(* Claims on findLegalDimension (SpecLegal). *)

\* C1: findLegalDimension(minimum) is 1 when minimum < 1; for minimum >= 1 it is
\* the smallest n >= minimum whose prime factors are all among 2, 3, 5, 7; and
\* legalizing the result again returns the result.
C1_SmallestLegal ==
    /\ legal.at \in {"once", "twice"} =>
        IF legal.minimum < 1
        THEN legal.result = 1
        ELSE /\ legal.result >= legal.minimum
             /\ Smooth(legal.result)
             /\ \A n \in legal.minimum..(legal.result - 1) : ~Smooth(n)
    /\ legal.at = "twice" => legal.again = legal.result

\* A size that had to be rounded up was legalized, and legalized again.
C1_Witness ==
    /\ legal.at = "twice"
    /\ legal.minimum >= 1
    /\ legal.result > legal.minimum + 1
    /\ legal.again = legal.result

-----------------------------------------------------------------------------
(* Claims on createKernel's stage loop (SpecKernel). *)

\* C2: for a legal axis length Z the stage loop never throws, each stage's radix
\* is one of 7, 5, 4, 3, 2 and divides the length remaining at that stage, the
\* product of the radices emitted so far is m with L*m = Z, a radix is always
\* found while L > 1, and the loop ends with L = 1 and m = Z.
C2_StageDecomposition ==
    (ck.at \in {"loop", "thrown", "done"} /\ Smooth(ck.zsize)) =>
        LET radices == Radices(ck.source)
        IN  /\ ck.at # "thrown"
            /\ Len(radices) = ck.stage
            /\ \A i \in 1..Len(radices) :
                /\ radices[i] \in {7, 5, 4, 3, 2}
                /\ ck.zsize % Product(SubSeq(radices, 1, i)) = 0
            /\ Product(radices) = ck.m
            /\ ck.L * ck.m = ck.zsize
            /\ (ck.at = "loop" /\ ck.L > 1) => \E r \in {7, 5, 4, 3, 2} : ck.L % r = 0
            /\ ck.at = "done" => (ck.L = 1 /\ ck.m = ck.zsize)

\* A legal length of three stages with three different radices was decomposed.
C2_Witness ==
    /\ ck.at = "done"
    /\ Smooth(ck.zsize)
    /\ ck.stage = 3
    /\ Cardinality({Radices(ck.source)[i] : i \in 1..3}) = 3
    /\ ck.m = ck.zsize

\* C8 as stated: getSmallestRadix(28) returns 7.
C8_Original == (ck.at \in {"loop", "thrown", "done"} /\ ck.zsize = 28) => ck.minRadix = 7

\* C8 as amended: getSmallestRadix(28) returns 4, the radix of the last loop
\* that divides (7 divides first and leaves 4, which the loop for 4 takes).
C8_Returns4 == (ck.at \in {"loop", "thrown", "done"} /\ ck.zsize = 28) => ck.minRadix = 4

\* createKernel was entered with an axis length of 28.
C8_Witness == ck.at = "loop" /\ ck.zsize = 28 /\ ck.threadsPerBlock = 7

\* C10: in the generated source, stage k reads only data(k mod 2) and writes only
\* the other buffer; each stage has exactly one barrier, placed after all its
\* writes (so before the reads of the next stage); every stage k >= 1 reads the
\* buffer stage k-1 wrote; and the final copy reads the buffer the last stage
\* wrote, data0 when there is no stage.
C10_PingPong ==
    ck.at \in {"loop", "thrown", "done"} =>
        LET src == ck.source
            Reads(k) == TokensOf(src, k, "read")
            Writes(k) == TokensOf(src, k, "write")
            Syncs(k) == TokensOf(src, k, "sync")
        IN  /\ \A k \in 0..(ck.stage - 1) :
                /\ Reads(k) # {} /\ Writes(k) # {}
                /\ \A i \in Reads(k) : src[i].buf = k % 2
                /\ \A i \in Writes(k) : src[i].buf = 1 - (k % 2)
                /\ Cardinality(Syncs(k)) = 1
                /\ \A s \in Syncs(k) : \A i \in Reads(k) \cup Writes(k) : i < s
                /\ k >= 1 =>
                    \A i \in Reads(k) : \A j \in Writes(k - 1) :
                        src[i].buf = src[j].buf
            /\ ck.at = "done" =>
                /\ src[Len(src)].op = "copy"
                /\ Cardinality({i \in 1..Len(src) : src[i].op = "copy"}) = 1
                /\ IF ck.stage = 0
                   THEN src[Len(src)].buf = 0
                   ELSE \A j \in Writes(ck.stage - 1) :
                            src[Len(src)].buf = src[j].buf

\* A kernel of at least three stages was generated to the end.
C10_Witness ==
    /\ ck.at = "done"
    /\ ck.stage >= 3
    /\ ck.source[Len(ck.source)].op = "copy"

-----------------------------------------------------------------------------
(* Claims on the constructor and execFFT (Spec). *)

Constructing == pc \in {KernelOrder[i] : i \in 1..6}

\* The constructor has run its packing selection.
Selected == Constructing \/ pc \in {"ready", "thrown"}

\* The position of a createKernel call in KernelOrder; 7 for "ready".
OrderOf(name) ==
    IF name = "ready" THEN 7 ELSE CHOOSE i \in 1..6 : KernelOrder[i] = name

\* C3: a createKernel call for an axis length with a prime factor above 7 throws
\* "Illegal size for FFT", the constructor ends by that exception with no kernel
\* built for that axis, and no object to run execFFT on; a call for a length
\* with no prime factor above 7 never throws.
C3_IllegalSize ==
    Selected =>
        LET len(k) == KernelArgs(fft, KernelOrder[k]).zsize
            built(k) == fft[KernelOrder[k]] # Null
        IN  /\ \A k \in 1..6 : built(k) => Smooth(len(k))
            /\ pc # "thrown" => \A k \in 1..6 : k < OrderOf(pc) => built(k)
            /\ pc = "thrown" =>
                /\ \E k \in 1..3 :
                    /\ ~Smooth(len(k))
                    /\ fft.error = <<"Illegal size for FFT: ", len(k)>>
                    /\ \A j \in 1..6 : built(j) <=> j < k
                /\ call = IdleCall /\ launches = <<>>
            /\ (\A k \in 1..3 : Smooth(len(k))) => pc # "thrown"
            /\ pc = "ready" => \A k \in 1..6 : built(k) /\ Smooth(len(k))

\* The Z-axis kernel was built, then the X-axis length 22 was found illegal at
\* its second stage (remaining length 11).
C3_Witness ==
    /\ pc = "thrown"
    /\ fft.zkernel # Null
    /\ fft.xkernel = Null
    /\ fft.packedXSize = 22
    /\ fft.error = <<"Illegal size for FFT: ", 22>>

\* C4: packing is enabled iff the transform is real-to-complex and some size is
\* even; the packed axis is then the first even one in the order X, Y, Z, its
\* size alone is halved; otherwise no size changes; inputIsReal holds iff the
\* transform is real-to-complex and nothing is packed.
C4_PackingSelection ==
    Selected =>
        LET size == <<fft.xsize, fft.ysize, fft.zsize>>
            packed == <<fft.packedXSize, fft.packedYSize, fft.packedZSize>>
            even == {i \in 1..3 : size[i] % 2 = 0}
            first == CHOOSE i \in even : \A j \in even : i <= j
        IN  /\ size = <<args.xsize, args.ysize, args.zsize>>
            /\ fft.packRealAsComplex <=> (args.realToComplex /\ even # {})
            /\ fft.packRealAsComplex =>
                /\ fft.packedAxis = first - 1
                /\ \A i \in 1..3 :
                    packed[i] = IF i = first THEN size[i] \div 2 ELSE size[i]
                /\ 2 * packed[first] = size[first]
            /\ ~fft.packRealAsComplex => packed = size
            /\ fft.inputIsReal <=> (args.realToComplex /\ ~fft.packRealAsComplex)
            /\ (args.realToComplex /\ size = <<5, 6, 7>>) =>
                (fft.packRealAsComplex /\ fft.packedAxis = 1 /\ packed = <<5, 3, 7>>)
            /\ (args.realToComplex /\ size = <<5, 7, 9>>) =>
                (~fft.packRealAsComplex /\ fft.inputIsReal)

\* A real-to-complex plan of sizes (5,6,7) was built with Y packed.
C4_Witness ==
    /\ pc = "ready"
    /\ args.realToComplex
    /\ <<fft.xsize, fft.ysize, fft.zsize>> = <<5, 6, 7>>
    /\ fft.packRealAsComplex
    /\ fft.packedAxis = 1
    /\ fft.packedYSize = 3

\* C5: on the direct path an execFFT call makes three launches: the Z-axis, the
\* X-axis and the Y-axis kernel of the call's direction, with (in, out),
\* (out, in), (in, out), each over xsize*ysize*zsize elements with the block
\* size of its axis.
C5_DirectLaunches ==
    (call # IdleCall /\ ~fft.packRealAsComplex) =>
        LET n == fft.xsize * fft.ysize * fft.zsize
            K(name) == fft[IF call.forward THEN name ELSE "inv" \o name]
        IN  /\ Len(launches) = 3
            /\ launches[1] = [kernel |-> K("zkernel"), args |-> <<call.in, call.out>>,
                              threads |-> n, blockSize |-> fft.zthreads]
            /\ launches[2] = [kernel |-> K("xkernel"), args |-> <<call.out, call.in>>,
                              threads |-> n, blockSize |-> fft.xthreads]
            /\ launches[3] = [kernel |-> K("ykernel"), args |-> <<call.in, call.out>>,
                              threads |-> n, blockSize |-> fft.ythreads]
            /\ \A i \in 1..3 :
                /\ launches[i].kernel.name = "execFFT"
                /\ launches[i].kernel.defines.SIGN = IF call.forward THEN "1" ELSE "-1"
                /\ launches[i].blockSize =
                    launches[i].kernel.defines.BLOCKS_PER_GROUP
                        * launches[i].kernel.defines.THREADS_PER_BLOCK
            /\ launches[1].kernel.defines.ZSIZE = fft.zsize
            /\ launches[2].kernel.defines.ZSIZE = fft.xsize
            /\ launches[3].kernel.defines.ZSIZE = fft.ysize

\* An inverse transform ran on the direct path over three different sizes.
C5_Witness ==
    /\ call # IdleCall
    /\ ~fft.packRealAsComplex
    /\ ~call.forward
    /\ Cardinality({fft.xsize, fft.ysize, fft.zsize}) = 3
    /\ Len(launches) = 3

\* C6: on the packed path an execFFT call makes five launches: pack, Z-axis,
\* X-axis, Y-axis, unpack, of the call's direction, all over xsize*ysize*zsize/2
\* elements, pack and unpack with block size 128 and each axis kernel with the
\* block size of its axis.
C6_PackedLaunches ==
    (call # IdleCall /\ fft.packRealAsComplex) =>
        LET n == fft.xsize * fft.ysize * fft.zsize
            K(name) == fft[IF call.forward THEN name ELSE "inv" \o name]
            P(name) == fft[name \o (IF call.forward THEN "Forward" ELSE "Backward")
                                \o "Kernel"]
        IN  /\ Len(launches) = 5
            /\ launches[1].kernel = P("pack")
            /\ launches[1].kernel.name =
                IF call.forward THEN "packForwardData" ELSE "packBackwardData"
            /\ launches[2].kernel = K("zkernel")
            /\ launches[3].kernel = K("xkernel")
            /\ launches[4].kernel = K("ykernel")
            /\ launches[5].kernel = P("unpack")
            /\ launches[5].kernel.name =
                IF call.forward THEN "unpackForwardData" ELSE "unpackBackwardData"
            /\ \A i \in 1..5 : 2 * launches[i].threads = n
            /\ fft.packedXSize * fft.packedYSize * fft.packedZSize = launches[1].threads
            /\ launches[1].blockSize = 128
            /\ launches[2].blockSize = fft.zthreads
            /\ launches[3].blockSize = fft.xthreads
            /\ launches[4].blockSize = fft.ythreads
            /\ launches[5].blockSize = 128
            /\ \A i \in 2..4 :
                /\ launches[i].kernel.name = "execFFT"
                /\ launches[i].kernel.defines.SIGN = IF call.forward THEN "1" ELSE "-1"

\* A forward transform ran on the packed path.
C6_Witness ==
    /\ call # IdleCall
    /\ fft.packRealAsComplex
    /\ call.forward
    /\ fft.packedAxis = 2
    /\ Len(launches) = 5

\* C7 as stated: in one execFFT call the first launch reads the caller's input,
\* every later launch reads the buffer the launch before it wrote and writes the
\* other one, and the last launch writes the caller's output.
C7_Original ==
    call # IdleCall =>
        /\ Len(launches) \in {3, 5}
        /\ launches[1].args[1] = call.in
        /\ \A i \in 1..Len(launches) :
            /\ launches[i].args[1] # launches[i].args[2]
            /\ {launches[i].args[1], launches[i].args[2]} = {call.in, call.out}
        /\ \A i \in 2..Len(launches) :
            /\ launches[i].args[1] = launches[i - 1].args[2]
            /\ launches[i].args[2] = launches[i - 1].args[1]
        /\ launches[Len(launches)].args[2] = call.out

\* C7 as amended: in one execFFT call the first launch reads the caller's input,
\* every later launch reads the buffer the launch before it wrote and writes the
\* buffer that launch read, and the last launch writes the caller's output; the
\* buffer a launch writes is other than the one it reads exactly when the
\* caller's input and output are different buffers.
C7_BufferChain ==
    call # IdleCall =>
        /\ Len(launches) \in {3, 5}
        /\ launches[1].args[1] = call.in
        /\ \A i \in 1..Len(launches) :
            /\ {launches[i].args[1], launches[i].args[2]} = {call.in, call.out}
            /\ launches[i].args[1] # launches[i].args[2] <=> call.in # call.out
        /\ \A i \in 2..Len(launches) :
            /\ launches[i].args[1] = launches[i - 1].args[2]
            /\ launches[i].args[2] = launches[i - 1].args[1]
        /\ launches[Len(launches)].args[2] = call.out

\* A packed execFFT call on two different buffers, five launches long, has
\* returned.
C7_Witness ==
    /\ call # IdleCall
    /\ call.in # call.out
    /\ Len(launches) = 5
    /\ launches[5].args = <<call.in, call.out>>
    /\ launches[4].args = <<call.out, call.in>>

\* The axis kernels of the object whose source writes the reduced layout.
PackedWriters ==
    {k \in 1..6 : fft[KernelOrder[k]].defines.OUTPUT_IS_PACKED = "1"}

\* C9 as stated: in a real-to-complex plan on the direct path the only axis kernel
\* with OUTPUT_IS_PACKED = 1 is the one a forward execFFT launches first.
C9_Original ==
    (call # IdleCall /\ call.forward /\ fft.inputIsReal) =>
        /\ launches[1].kernel.defines.OUTPUT_IS_PACKED = "1"
        /\ \A k \in PackedWriters : fft[KernelOrder[k]] = launches[1].kernel

\* C9 as amended: in a real-to-complex plan on the direct path the only axis
\* kernel with OUTPUT_IS_PACKED = 1 is the forward kernel of axis 2 (ykernel),
\* the one a forward execFFT launches last; the kernel launched first is the one
\* that reads real input (INPUT_IS_REAL = 1).
C9_LastAxisWritesPacked ==
    /\ pc = "ready" =>
        PackedWriters = IF fft.inputIsReal THEN {3} ELSE {}
    /\ (call # IdleCall /\ call.forward /\ fft.inputIsReal) =>
        /\ launches[3].kernel = fft.ykernel
        /\ launches[3].kernel.defines.OUTPUT_IS_PACKED = "1"
        /\ \E i \in 1..Len(launches[3].kernel.defines.COMPUTE_FFT) :
            LET t == launches[3].kernel.defines.COMPUTE_FFT[i]
            IN  t.op = "copy" /\ t.packed
        /\ launches[1].kernel.defines.OUTPUT_IS_PACKED = "0"
        /\ launches[2].kernel.defines.OUTPUT_IS_PACKED = "0"
        /\ launches[1].kernel.defines.INPUT_IS_REAL = "1"

\* A forward transform ran on the direct path of a real-to-complex plan.
C9_Witness ==
    /\ call # IdleCall
    /\ call.forward
    /\ fft.inputIsReal
    /\ Len(launches) = 3
    /\ launches[3].kernel.defines.OUTPUT_IS_PACKED = "1"

-----------------------------------------------------------------------------
(* Claim on the thread count of createKernel (SpecKernel). *)

\* The lanes per row ("L*m" of lines 203-208) of the passes emitted so far.
Lanes(source) ==
    LET idx == SelectSeq(source, LAMBDA t : t.op = "index")
    IN  [i \in 1..Len(idx) |-> idx[i].lanes]

\* C11: for a legal axis length Z > 1 every stage's radix is at least
\* getSmallestRadix(Z), so the lanes a stage needs per row, Z/radix, never exceed
\* threadsPerBlock = Z/getSmallestRadix(Z); a stage is guarded by "if" exactly
\* when it needs fewer; and once the loop has ended getSmallestRadix(Z) is the
\* smallest radix emitted.
C11_RadixAtLeastSmallest ==
    (ck.at \in {"loop", "thrown", "done"} /\ Smooth(ck.zsize) /\ ck.zsize > 1) =>
        LET radices == Radices(ck.source)
            lanes == Lanes(ck.source)
            guards == SelectSeq(ck.source, LAMBDA t : t.op \in {"if", "block"})
        IN  /\ ck.threadsPerBlock * ck.minRadix = ck.zsize
            /\ Len(lanes) = Len(radices) /\ Len(guards) = Len(radices)
            /\ \A i \in 1..Len(radices) :
                /\ radices[i] >= ck.minRadix
                /\ lanes[i] * radices[i] = ck.zsize
                /\ lanes[i] <= ck.threadsPerBlock
                /\ guards[i].op = "if" <=> lanes[i] < ck.threadsPerBlock
                /\ guards[i].op = "if" =>
                    guards[i].limit = ck.blocksPerGroup * lanes[i]
            /\ ck.at = "done" =>
                /\ radices # <<>>
                /\ \E i \in 1..Len(radices) : radices[i] = ck.minRadix
                /\ \E i \in 1..Len(radices) : lanes[i] = ck.threadsPerBlock

\* A kernel was generated whose first stage uses a larger radix than the
\* smallest one, and so fewer lanes than the row has threads.
C11_Witness ==
    /\ ck.at = "done"
    /\ Smooth(ck.zsize)
    /\ ck.stage >= 2
    /\ Radices(ck.source)[1] > ck.minRadix
    /\ Lanes(ck.source)[1] < ck.threadsPerBlock
    /\ Lanes(ck.source)[ck.stage] = ck.threadsPerBlock

====
